---- MODULE Spec2Model ----
(***************************************************************************)
(* Model of src/main.js: a WebGPU Game of Life.  The host builds two cell   *)
(* state buffers and two bind groups, then a timer calls updateGrid, which  *)
(* records one compute pass and one render pass into a command buffer and   *)
(* submits it.  The device executes the submitted passes asynchronously,    *)
(* in submission order.                                                     *)
(*                                                                          *)
(* u32 values of the WGSL shader are represented in two's complement: a     *)
(* u32 value v < 2^31 is the integer v, a value v >= 2^31 is the integer    *)
(* v - 2^32.  So 0u - 1u is -1, which stands for 4294967295.                *)
(***************************************************************************)
EXTENDS Integers, Sequences, FiniteSets, TLC

VARIABLES window, navigator, timer, GRID_SIZE_X, GRID_SIZE_Y, step,
          vertexBuffer, uniformBuffer, cellStateStorage, bindGroups,
          queue, dispatch, lastWriter, lastRender, twin

vars == <<window, navigator, timer, GRID_SIZE_X, GRID_SIZE_Y, step,
          vertexBuffer, uniformBuffer, cellStateStorage, bindGroups,
          queue, dispatch, lastWriter, lastRender, twin>>

\* What startup builds and no later code assigns.
startupObjects == <<window, navigator, timer, vertexBuffer, uniformBuffer>>

(* ---------------------------- bounds ----------------------------------- *)

\* updateGrid is called at most MaxStep times.
MaxStep == 2

\* At most MaxQueue command buffers wait on the device queue.
MaxQueue == 2

\* Grids of these sizes start from every 0/1 content; larger grids start
\* from the empty grid, a blinker clear of the edges or a 2x2 block.
FullGrids == {1, 2, 3}

\* The viewports explored: grids of 1, 2, 3, 4, 5, 6 and 8 cells a side.
Windows ==
    { [innerWidth |-> 16,  innerHeight |-> 10],
      [innerWidth |-> 20,  innerHeight |-> 32],
      [innerWidth |-> 48,  innerHeight |-> 48],
      [innerWidth |-> 64,  innerHeight |-> 40],
      [innerWidth |-> 30,  innerHeight |-> 80],
      [innerWidth |-> 96,  innerHeight |-> 96],
      [innerWidth |-> 128, innerHeight |-> 100] }

\* Viewports smaller than one cell.
SmallWindows ==
    { [innerWidth |-> 0,  innerHeight |-> 0],
      [innerWidth |-> 15, innerHeight |-> 9] }

\* The browsers explored: navigator.gpu present or not, requestAdapter
\* yielding an adapter or null.
Navigators == [gpu : BOOLEAN, adapter : BOOLEAN]

(* ------------------------ program constants ---------------------------- *)

CELL_PITCH == 16

WORKGROUP_SIZE == 8

(* ------------------------- u32 arithmetic ------------------------------ *)

\* 2^32 mod w, computed without leaving 32-bit integers.
Pow32Mod(w) == ((65536 % w) * (65536 % w)) % w

\* The WGSL operator % on u32 operands, v in two's complement.
U32Mod(v, w) == IF v >= 0 THEN v % w ELSE ((v % w) + Pow32Mod(w)) % w

(* --------------------------- the grid ---------------------------------- *)

NumCells == GRID_SIZE_X * GRID_SIZE_Y

Indices == 0 .. (NumCells - 1)

InGrid(x, y) == x >= 0 /\ x < GRID_SIZE_X /\ y >= 0 /\ y < GRID_SIZE_Y

\* The array with exactly the cells of S active, for a w x h grid.
ArrayOf(S, w, h) ==
    [i \in 0 .. (w * h - 1) |-> IF <<i % w, i \div w>> \in S THEN 1 ELSE 0]

\* The horizontal three-cell lines one cell away from every edge.
Blinkers(w, h) ==
    { {<<c - 1, r>>, <<c, r>>, <<c + 1, r>>} :
          c \in 2 .. (w - 3), r \in 2 .. (h - 3) }

\* The 2x2 blocks in rows 1 and 2, the one touching column 0 included.
Blocks(w, h) ==
    { {<<c, 1>>, <<c + 1, 1>>, <<c, 2>>, <<c + 1, 2>>} : c \in 0 .. (w - 2) }

\* The contents Math.random() may give cellStateArray.
cellStateArrays(w, h) ==
    IF w \in FullGrids /\ h \in FullGrids
    THEN [0 .. (w * h - 1) -> {0, 1}]
    ELSE { ArrayOf(S, w, h) : S \in {{}} \cup Blinkers(w, h) \cup Blocks(w, h) }

(* ------------------------- the bind groups ----------------------------- *)

\* Each bind group created with one state buffer at both bindings.
bindGroupsInit_sameBuffer ==
    [g \in {0, 1} |-> [b0 |-> "uniformBuffer", b1 |-> g, b2 |-> g]]

\* Both bind groups created with the bindings of group A.
bindGroupsInit_sameBindings ==
    [g \in {0, 1} |-> [b0 |-> "uniformBuffer", b1 |-> 0, b2 |-> 1]]

bindGroupsInit ==
    [g \in {0, 1} |->
        IF g = 0
        THEN [b0 |-> "uniformBuffer", b1 |-> 0, b2 |-> 1]
        ELSE [b0 |-> "uniformBuffer", b1 |-> 1, b2 |-> 0]]

(* ----------------------- the simulation shader ------------------------- *)

cellIndex(x, y) ==
    U32Mod(y, GRID_SIZE_Y) * GRID_SIZE_X + U32Mod(x, GRID_SIZE_X)

cellActive(cellStateIn, x, y) == cellStateIn[cellIndex(x, y)]

\* The eight cells computeMain reads, in the order of the source.
neighborCells(x, y) ==
    << <<x + 1, y + 1>>, <<x + 1, y>>, <<x + 1, y - 1>>, <<x, y - 1>>,
       <<x - 1, y - 1>>, <<x - 1, y>>, <<x - 1, y + 1>>, <<x, y + 1>> >>

RECURSIVE SumActive(_, _, _)
SumActive(cellStateIn, cells, n) ==
    IF n = 0 THEN 0
    ELSE cellActive(cellStateIn, cells[n][1], cells[n][2])
         + SumActive(cellStateIn, cells, n - 1)

activeNeighbors(cellStateIn, x, y) ==
    SumActive(cellStateIn, neighborCells(x, y), 8)

\* computeMain with a switch whose cases fall through to the default.
computeMain_fallthrough(cellStateIn, x, y) ==
    [cell  |-> <<x, y>>,
     reads |-> [n \in 1 .. 8 |->
                   cellIndex(neighborCells(x, y)[n][1], neighborCells(x, y)[n][2])],
     k     |-> activeNeighbors(cellStateIn, x, y),
     i     |-> cellIndex(x, y),
     v     |-> 0]

\* computeMain storing the neighbour count where it should copy the cell.
computeMain_storeCount(cellStateIn, x, y) ==
    LET k == activeNeighbors(cellStateIn, x, y)
    IN  [cell  |-> <<x, y>>,
         reads |-> [n \in 1 .. 8 |->
                       cellIndex(neighborCells(x, y)[n][1], neighborCells(x, y)[n][2])],
         k     |-> k,
         i     |-> cellIndex(x, y),
         v     |-> CASE k = 2 -> k
                     [] k = 3 -> 1
                     [] OTHER -> 0]

\* One invocation of computeMain with global_invocation_id (x, y): the
\* indices it reads, the count it finds, and the write it makes.  There is
\* no bounds test in the shader: every invocation makes exactly one write.
computeMain(cellStateIn, x, y) ==
    LET k == activeNeighbors(cellStateIn, x, y)
        i == cellIndex(x, y)
    IN  [cell  |-> <<x, y>>,
         reads |-> [n \in 1 .. 8 |->
                       cellIndex(neighborCells(x, y)[n][1], neighborCells(x, y)[n][2])],
         k     |-> k,
         i     |-> i,
         v     |-> CASE k = 2 -> cellStateIn[i]
                     [] k = 3 -> 1
                     [] OTHER -> 0]

(* ----------------------------- the host -------------------------------- *)

\* workgroupCount rounded down instead of up.
workgroupCount_floor ==
    (GRID_SIZE_X + GRID_SIZE_Y) \div (2 * WORKGROUP_SIZE)

workgroupCount ==
    (GRID_SIZE_X + GRID_SIZE_Y + 2 * WORKGROUP_SIZE - 1) \div (2 * WORKGROUP_SIZE)

computePass(s) ==
    [kind |-> "compute", bindGroup |-> bindGroups[s % 2],
     workgroups |-> workgroupCount, tick |-> step]

renderPass(s) ==
    [kind |-> "render", bindGroup |-> bindGroups[s % 2],
     workgroups |-> 0, instances |-> GRID_SIZE_X * GRID_SIZE_Y, tick |-> step]

\* canvas.width = canvas.height = max(innerWidth, innerHeight).
canvasSize(w) ==
    IF w.innerWidth > w.innerHeight THEN w.innerWidth ELSE w.innerHeight

\* The quad of two triangles, in tenths.
vertices ==
    << <<-8, -8>>, <<8, -8>>, <<8, 8>>, <<-8, -8>>, <<8, 8>>, <<-8, 8>> >>

\* startup without the test of the adapter.
startup_noAdapterCheck(nav) ==
    IF ~nav.gpu THEN "error"
    ELSE "running"

\* The capability checks of startup: "error" when one of them throws.
startup(nav) ==
    IF ~nav.gpu THEN "error"
    ELSE IF ~nav.adapter THEN "error"
    ELSE "running"

\* The state once the module has run to its last line, setInterval
\* included, for the grid GRID_SIZE_X x GRID_SIZE_Y.
Constructed ==
    /\ step = 0
    /\ vertexBuffer = vertices
    /\ uniformBuffer = <<GRID_SIZE_X, GRID_SIZE_Y>>
    \* createBuffer zero-fills both buffers; writeBuffer uploads to buffer A.
    /\ \E cellStateArray \in cellStateArrays(GRID_SIZE_X, GRID_SIZE_Y) :
          cellStateStorage =
              [b \in {0, 1} |-> IF b = 0 THEN cellStateArray
                                ELSE [i \in Indices |-> 0]]
    /\ bindGroups = bindGroupsInit
    /\ queue = << >>
    /\ dispatch = [tick |-> -1, in |-> -1, out |-> -1, inv |-> << >>]
    /\ lastWriter = [b \in {0, 1} |->
                        IF b = 0 THEN [by |-> "writeBuffer", tick |-> -1, cells |-> Indices]
                        ELSE [by |-> "none", tick |-> -1, cells |-> {}]]
    /\ lastRender = [tick |-> -1, buffer |-> -1, frame |-> << >>]
    /\ timer = TRUE

\* The state once a capability check has thrown: no device object exists
\* and setInterval was not reached.
Failed ==
    /\ step = 0
    /\ vertexBuffer = << >>
    /\ uniformBuffer = << >>
    /\ cellStateStorage = << >>
    /\ bindGroups = << >>
    /\ queue = << >>
    /\ dispatch = [tick |-> -1, in |-> -1, out |-> -1, inv |-> << >>]
    /\ lastWriter = << >>
    /\ lastRender = [tick |-> -1, buffer |-> -1, frame |-> << >>]
    /\ timer = FALSE

\* Startup in a browser with WebGPU, for a viewport of at least one cell.
StartupOk ==
    /\ window \in Windows
    /\ navigator = [gpu |-> TRUE, adapter |-> TRUE]
    /\ GRID_SIZE_X = canvasSize(window) \div CELL_PITCH
    /\ GRID_SIZE_Y = canvasSize(window) \div CELL_PITCH
    /\ Constructed

Init == StartupOk /\ twin = << >>

\* updateGrid with step++ moved after the render pass.
updateGrid_renderOldParity ==
    /\ timer
    /\ step < MaxStep
    /\ Len(queue) < MaxQueue
    /\ queue' = Append(queue, <<computePass(step), renderPass(step)>>)
    /\ step' = step + 1
    /\ UNCHANGED <<GRID_SIZE_X, GRID_SIZE_Y, cellStateStorage, bindGroups,
                   dispatch, lastWriter, lastRender>>
    /\ UNCHANGED <<startupObjects, twin>>

\* updateGrid encoding the render pass before the compute pass.
updateGrid_renderFirst ==
    /\ timer
    /\ step < MaxStep
    /\ Len(queue) < MaxQueue
    /\ queue' = Append(queue, <<renderPass(step + 1), computePass(step)>>)
    /\ step' = step + 1
    /\ UNCHANGED <<GRID_SIZE_X, GRID_SIZE_Y, cellStateStorage, bindGroups,
                   dispatch, lastWriter, lastRender>>
    /\ UNCHANGED <<startupObjects, twin>>

updateGrid ==
    /\ timer
    /\ step < MaxStep
    /\ Len(queue) < MaxQueue
    /\ queue' = Append(queue, <<computePass(step), renderPass(step + 1)>>)
    /\ step' = step + 1
    /\ UNCHANGED <<GRID_SIZE_X, GRID_SIZE_Y, cellStateStorage, bindGroups,
                   dispatch, lastWriter, lastRender>>
    /\ UNCHANGED <<startupObjects, twin>>

(* ---------------------------- the device ------------------------------- *)

\* The queue once the first pass of its first command buffer has run.
Advance(q) ==
    IF Len(Head(q)) = 1 THEN Tail(q) ELSE <<Tail(Head(q))>> \o Tail(q)

\* The invocations of dispatchWorkgroups(n, n).
Invocations(n) ==
    { <<x, y>> : x \in 0 .. (n * WORKGROUP_SIZE - 1),
                 y \in 0 .. (n * WORKGROUP_SIZE - 1) }

\* The values the invocations of the dispatch d write to index i.
Written(d, i) == { d[c].v : c \in { e \in DOMAIN d : d[e].i = i } }

\* The contents the output buffer can have after the dispatch d: an index
\* no invocation writes keeps its value, an index written by several
\* invocations (a data race when their values differ) gets any of them.
Outcomes(d, old) ==
    LET racy == { i \in DOMAIN old : Cardinality(Written(d, i)) > 1 }
        base == [i \in DOMAIN old |->
                    IF Written(d, i) = {} THEN old[i]
                    ELSE CHOOSE v \in Written(d, i) : TRUE]
    IN  IF racy = {} THEN {base}
        ELSE { [i \in DOMAIN old |-> IF i \in DOMAIN f THEN f[i] ELSE base[i]] :
                  f \in { g \in [racy -> { d[c].v : c \in DOMAIN d }] :
                             \A i \in racy : g[i] \in Written(d, i) } }

\* The device runs the compute pass at the head of the queue.
RunComputePass ==
    /\ queue # << >>
    /\ Head(Head(queue)).kind = "compute"
    /\ LET pass == Head(Head(queue))
           in   == pass.bindGroup.b1
           out  == pass.bindGroup.b2
       IN  /\ dispatch' =
                 [tick |-> pass.tick, in |-> in, out |-> out,
                  inv  |-> [c \in Invocations(pass.workgroups) |->
                               computeMain(cellStateStorage[in], c[1], c[2])]]
           /\ \E result \in Outcomes(dispatch'.inv, cellStateStorage[out]) :
                 cellStateStorage' = [cellStateStorage EXCEPT ![out] = result]
           /\ lastWriter' = [lastWriter EXCEPT ![out] =
                   [by |-> "compute", tick |-> pass.tick,
                    cells |-> { dispatch'.inv[c].i : c \in DOMAIN dispatch'.inv }]]
    /\ queue' = Advance(queue)
    /\ UNCHANGED <<GRID_SIZE_X, GRID_SIZE_Y, step, bindGroups, lastRender>>
    /\ UNCHANGED startupObjects

DeviceCompute == RunComputePass /\ UNCHANGED twin

\* One invocation of vertexMain: the cell the instance is drawn at and the
\* state flag that scales it.  The f32 operations are exact on the small
\* integers of the model.
vertexMain(cellState, instance) ==
    [cell  |-> <<instance % GRID_SIZE_X, instance \div GRID_SIZE_Y>>,
     state |-> cellState[instance]]

DeviceRender ==
    /\ queue # << >>
    /\ Head(Head(queue)).kind = "render"
    /\ LET pass == Head(Head(queue))
       IN  lastRender' =
               [tick |-> pass.tick, buffer |-> pass.bindGroup.b1,
                frame |-> [i \in 0 .. (pass.instances - 1) |->
                              vertexMain(cellStateStorage[pass.bindGroup.b1], i)]]
    /\ queue' = Advance(queue)
    /\ UNCHANGED <<GRID_SIZE_X, GRID_SIZE_Y, step, cellStateStorage, bindGroups,
                   dispatch, lastWriter>>
    /\ UNCHANGED <<startupObjects, twin>>

Next == updateGrid \/ DeviceCompute \/ DeviceRender

Spec == Init /\ [][Next]_vars

(* ------------------------ startup in any browser ----------------------- *)

\* Startup for any viewport, smaller than one cell included, in any
\* browser.  The canvas and the grid size are set before the capability
\* checks run.
InitAnyBrowser ==
    /\ window \in SmallWindows \cup
                    { w \in Windows : canvasSize(w) \div CELL_PITCH \in FullGrids }
    /\ navigator \in Navigators
    /\ GRID_SIZE_X = canvasSize(window) \div CELL_PITCH
    /\ GRID_SIZE_Y = canvasSize(window) \div CELL_PITCH
    /\ IF startup(navigator) = "running" THEN Constructed ELSE Failed
    /\ twin = << >>

SpecStartup == InitAnyBrowser /\ [][Next]_vars

(* ---------------------- the shaders on any grid ------------------------ *)

\* Grid widths and heights for the uniform grid, square or not.
GridPairs == { <<2, 2>>, <<2, 3>>, <<3, 2>>, <<1, 3>> }

\* The program with the grid uniform set to any of GridPairs, as for a
\* canvas of that many cells.
InitAnyGrid ==
    /\ \E g \in GridPairs :
          /\ GRID_SIZE_X = g[1]
          /\ GRID_SIZE_Y = g[2]
          /\ window = [innerWidth  |-> g[1] * CELL_PITCH,
                       innerHeight |-> g[2] * CELL_PITCH]
    /\ navigator = [gpu |-> TRUE, adapter |-> TRUE]
    /\ Constructed
    /\ twin = << >>

SpecAnyGrid == InitAnyGrid /\ [][Next]_vars

(* ------------------------ two runs side by side ------------------------ *)

\* A second run of the program from the same startup state: twin holds the
\* state buffers of the second run.
InitTwoRuns == StartupOk /\ twin = cellStateStorage

\* The content of the output buffer after the dispatch d on a device that
\* runs the invocations one after another, in ascending order of their id:
\* the last invocation to write an index decides its value.
SequentialOutcome(d, old) ==
    [i \in DOMAIN old |->
        LET writers == { c \in DOMAIN d : d[c].i = i }
        IN  IF writers = {} THEN old[i]
            ELSE d[CHOOSE c \in writers :
                      \A e \in writers :
                          e[2] < c[2] \/ (e[2] = c[2] /\ e[1] <= c[1])].v]

\* While the two runs agree, both devices run the same compute pass on the
\* same input: the first in any order, the second sequentially.
DeviceComputeBoth ==
    /\ twin = cellStateStorage
    /\ RunComputePass
    /\ twin' = [twin EXCEPT ![dispatch'.out] =
                   SequentialOutcome(dispatch'.inv, twin[dispatch'.out])]

NextTwoRuns == updateGrid \/ DeviceComputeBoth \/ DeviceRender

SpecTwoRuns == InitTwoRuns /\ [][NextTwoRuns]_vars

(* ============================ the claims ============================== *)

\* The invocations of the last dispatch whose global id lies in the grid.
InGridInvocations == { c \in DOMAIN dispatch.inv : InGrid(c[1], c[2]) }

\* The number of active cells among the indices idx[1..n] of the array a.
RECURSIVE CountActive(_, _, _)
CountActive(a, idx, n) ==
    IF n = 0 THEN 0 ELSE a[idx[n]] + CountActive(a, idx, n - 1)

\* C1: every invocation of computeMain for a cell (x,y) of the grid writes,
\* at index y*width+x of the next array, 1 when the number k of active
\* cells among the eight it reads is 3, the cell's own current value when k
\* is 2, and 0 for every other k in 0..8.
C1_RuleCorrect ==
    \A c \in InGridInvocations :
        LET r   == dispatch.inv[c]
            cur == cellStateStorage[dispatch.in]
            k   == CountActive(cur, r.reads, 8)
        IN  /\ k \in 0 .. 8
            /\ r.i = c[2] * GRID_SIZE_X + c[1]
            /\ r.v = IF k = 3 THEN 1 ELSE IF k = 2 THEN cur[r.i] ELSE 0

\* C1 witness: one dispatch held a live cell kept by 2 neighbours, a dead
\* cell born from 3 and a live cell killed by 4.
C1_Witness ==
    \E c1, c2, c3 \in InGridInvocations :
        LET cur == cellStateStorage[dispatch.in]
        IN  /\ dispatch.inv[c1].k = 2 /\ cur[dispatch.inv[c1].i] = 1
            /\ dispatch.inv[c1].v = 1
            /\ dispatch.inv[c2].k = 3 /\ cur[dispatch.inv[c2].i] = 0
            /\ dispatch.inv[c2].v = 1
            /\ dispatch.inv[c3].k = 4 /\ cur[dispatch.inv[c3].i] = 1
            /\ dispatch.inv[c3].v = 0

\* The offsets of neighborCells, in the same order.
Offsets ==
    << <<1, 1>>, <<1, 0>>, <<1, -1>>, <<0, -1>>,
       <<-1, -1>>, <<-1, 0>>, <<-1, 1>>, <<0, 1>> >>

\* C2: for every grid width and height the eight cells an invocation for
\* the grid cell (x,y) reads are ((x+dx) mod width, (y+dy) mod height) for
\* the eight offsets (dx,dy), with the mathematical modulo.
C2_Toroidal ==
    \A c \in InGridInvocations :
        \A n \in 1 .. 8 :
            dispatch.inv[c].reads[n] =
                ((c[2] + Offsets[n][2]) % GRID_SIZE_Y) * GRID_SIZE_X
                + ((c[1] + Offsets[n][1]) % GRID_SIZE_X)

\* C3: current(s) = binding 1 and next(s) = binding 2 of bindGroups[s mod 2]
\* satisfy current(s+1) = next(s), and are the two distinct buffers of
\* cellStateStorage; the compute pass of tick s reads current(s) and
\* writes next(s).
C3_Parity ==
    /\ \A s \in 0 .. step :
          /\ bindGroups[(s + 1) % 2].b1 = bindGroups[s % 2].b2
          /\ bindGroups[s % 2].b1 # bindGroups[s % 2].b2
          /\ {bindGroups[s % 2].b1, bindGroups[s % 2].b2} = DOMAIN cellStateStorage
    /\ dispatch.tick >= 0 =>
          /\ dispatch.in = bindGroups[dispatch.tick % 2].b1
          /\ dispatch.out = bindGroups[dispatch.tick % 2].b2
          /\ dispatch.in # dispatch.out

\* C3 witness: the compute pass of the second tick ran, reading the buffer
\* the first tick wrote.
C3_Witness ==
    /\ step = 2
    /\ dispatch.tick = 1
    /\ dispatch.in = 1
    /\ dispatch.out = 0

\* C4: a tick increments step exactly once and submits exactly one command
\* buffer, holding the compute pass with the bind group of the old parity
\* and then the render pass with the bind group of the new parity; binding 1
\* of the render pass is binding 2 of the compute pass; and when the device
\* runs the render pass of a tick, the buffer it reads was last written, in
\* full, by the compute pass of that tick.
C4_TickOrder ==
    [][ /\ (step' # step \/ Len(queue') > Len(queue)) =>
              /\ step' = step + 1
              /\ queue' = Append(queue, queue'[Len(queue')])
              /\ LET cb == queue'[Len(queue')]
                 IN  /\ Len(cb) = 2
                     /\ cb[1].kind = "compute"
                     /\ cb[1].bindGroup = bindGroups[step % 2]
                     /\ cb[1].tick = step
                     /\ cb[2].kind = "render"
                     /\ cb[2].bindGroup = bindGroups[step' % 2]
                     /\ cb[2].tick = step
                     /\ cb[2].bindGroup.b1 = cb[1].bindGroup.b2
        /\ lastRender' # lastRender =>
              /\ dispatch.tick = lastRender'.tick
              /\ dispatch.out = lastRender'.buffer
              /\ lastWriter[lastRender'.buffer].by = "compute"
              /\ lastWriter[lastRender'.buffer].tick = lastRender'.tick
      ]_vars

\* C4 witness: the device has run both passes of the second tick, submitted
\* with step = 1, and the render pass read the buffer just computed.
C4_Witness ==
    /\ step = 2
    /\ queue = << >>
    /\ lastRender.tick = 1
    /\ dispatch.tick = 1
    /\ lastRender.buffer = dispatch.out

\* C5: no invocation of a dispatch lies outside the grid and writes, and no
\* two invocations of a dispatch write the same index of the next array.
C5_NoOutOfGrid ==
    /\ \A c \in DOMAIN dispatch.inv : InGrid(c[1], c[2])
    /\ \A c1, c2 \in DOMAIN dispatch.inv :
          dispatch.inv[c1].i = dispatch.inv[c2].i => c1 = c2

\* C6: every compute pass writes all width*height entries of its output
\* buffer; the buffer a compute pass reads and the buffer a render pass reads
\* were written in full before (by the upload for tick 0, else by the compute
\* pass of the tick before, resp. of the same tick), so no pass reads buffer
\* B as it was created.
C6_FullyWritten ==
    /\ dispatch.tick >= 0 =>
          /\ { dispatch.inv[c].i : c \in DOMAIN dispatch.inv } = Indices
          /\ lastWriter[dispatch.out].cells = Indices
          /\ lastWriter[dispatch.in].cells = Indices
          /\ lastWriter[dispatch.in].by =
                 IF dispatch.tick = 0 THEN "writeBuffer" ELSE "compute"
          /\ dispatch.tick > 0 => lastWriter[dispatch.in].tick = dispatch.tick - 1
    /\ lastRender.tick >= 0 =>
          /\ lastWriter[lastRender.buffer].by = "compute"
          /\ lastWriter[lastRender.buffer].cells = Indices
          /\ lastWriter[lastRender.buffer].tick = lastRender.tick

\* C6 witness: on a grid whose size is not a multiple of the work-group
\* size, the render pass of tick 0 has read buffer B, computed in full.
C6_Witness ==
    /\ GRID_SIZE_X % WORKGROUP_SIZE # 0
    /\ lastRender.tick = 0
    /\ lastRender.buffer = 1
    /\ lastWriter[1].by = "compute"
    /\ lastWriter[1].cells = Indices

\* The number of compute passes the device has still to run.
PendingComputes ==
    Cardinality({ n \in 1 .. Len(queue) : queue[n][1].kind = "compute" })

\* The array the next compute pass of the device reads as current.
Authoritative ==
    cellStateStorage[bindGroups[(step - PendingComputes) % 2].b1]

\* C7: after initialisation and after any number of ticks every element of
\* the authoritative cell-state array is 0 or 1.
C7_Binary == \A i \in Indices : Authoritative[i] \in {0, 1}

\* C7 witness: two ticks have run to completion and the authoritative array
\* holds both an active and an inactive cell.
C7_Witness ==
    /\ step = 2
    /\ queue = << >>
    /\ \E i, j \in Indices : Authoritative[i] = 1 /\ Authoritative[j] = 0

\* The horizontal and the vertical three-cell line with centre (c, r).
HLine(c, r) == {<<c - 1, r>>, <<c, r>>, <<c + 1, r>>}

VLine(c, r) == {<<c, r - 1>>, <<c, r>>, <<c, r + 1>>}

\* The centres whose 3x3 neighbourhood keeps one cell away from every edge.
InteriorCentres ==
    { <<c, r>> : c \in 2 .. (GRID_SIZE_X - 3), r \in 2 .. (GRID_SIZE_Y - 3) }

\* C8: from a horizontal blinker that keeps clear of the edges, the first
\* tick reads buffer A and leaves exactly the vertical line through the same
\* centre in buffer B, and the second tick reads buffer B and leaves exactly
\* the original horizontal line in buffer A.
C8_Blinker ==
    \A p \in InteriorCentres :
        LET h == ArrayOf(HLine(p[1], p[2]), GRID_SIZE_X, GRID_SIZE_Y)
            v == ArrayOf(VLine(p[1], p[2]), GRID_SIZE_X, GRID_SIZE_Y)
        IN  /\ (dispatch.tick = 0 /\ cellStateStorage[dispatch.in] = h) =>
                  /\ dispatch.in = 0
                  /\ dispatch.out = 1
                  /\ cellStateStorage[1] = v
            /\ (dispatch.tick = 1 /\ cellStateStorage[dispatch.in] = v) =>
                  /\ dispatch.in = 1
                  /\ dispatch.out = 0
                  /\ cellStateStorage[0] = h

\* The 2x2 block with top-left cell (c, r).
Block(c, r) == {<<c, r>>, <<c + 1, r>>, <<c, r + 1>>, <<c + 1, r + 1>>}

\* C9: on a grid of at least 4x4 cells, from an array whose only active
\* cells are a 2x2 block, one tick leaves exactly that block active.
C9_Block ==
    \A c \in 0 .. (GRID_SIZE_X - 2), r \in 0 .. (GRID_SIZE_Y - 2) :
        LET b == ArrayOf(Block(c, r), GRID_SIZE_X, GRID_SIZE_Y)
        IN  (/\ GRID_SIZE_X >= 4
             /\ GRID_SIZE_Y >= 4
             /\ dispatch.tick = 0
             /\ cellStateStorage[dispatch.in] = b)
            => cellStateStorage[dispatch.out] = b

AllInactive(a) == \A i \in DOMAIN a : a[i] = 0

\* C10: once every cell of the authoritative array is inactive, every cell
\* of the authoritative array is inactive after every further step of the
\* host and of the device.
C10_StaysInactive ==
    [][AllInactive(Authoritative) => AllInactive(Authoritative')]_vars

\* C10 witness: two compute passes have run from an all-inactive array, on
\* a grid whose size is not a power of two, and both buffers are inactive.
C10_Witness ==
    /\ GRID_SIZE_X = 3
    /\ dispatch.tick = 1
    /\ queue = << >>
    /\ AllInactive(cellStateStorage[0])
    /\ AllInactive(cellStateStorage[1])

\* C11: two runs from the same content of buffer A that have performed the
\* same number of ticks hold the same authoritative array, whatever the
\* order in which the device runs the invocations of a dispatch (here: any
\* order in the first run, ascending order in the second).
C11_Deterministic ==
    twin[bindGroups[(step - PendingComputes) % 2].b1] = Authoritative

C13_GridDimensions ==
    /\ GRID_SIZE_X > 0
    /\ GRID_SIZE_Y > 0
    /\ GRID_SIZE_X = canvasSize(window) \div CELL_PITCH
    /\ GRID_SIZE_Y = canvasSize(window) \div CELL_PITCH
    /\ \A b \in DOMAIN cellStateStorage :
          DOMAIN cellStateStorage[b] = 0 .. (GRID_SIZE_X * GRID_SIZE_Y - 1)

\* C14: when navigator.gpu is absent or requestAdapter yields no adapter,
\* the timer is never installed, step stays 0, and no command buffer is
\* submitted or executed.
C14_NoTicking ==
    (~navigator.gpu \/ ~navigator.adapter) =>
        /\ ~timer
        /\ step = 0
        /\ queue = << >>
        /\ dispatch.tick = -1
        /\ lastRender.tick = -1
        /\ ~ENABLED updateGrid

\* C14 witness: startup ended in an error because there is no adapter.
C14_Witness ==
    /\ navigator.gpu
    /\ ~navigator.adapter
    /\ startup(navigator) = "error"
    /\ ~timer
    /\ cellStateStorage = << >>

\* The queue holds the command buffers of consecutive ticks, the last one
\* of tick step-1, each whole (compute pass then render pass) except that
\* the compute pass of the first may have run; a compute pass reads buffer
\* tick mod 2 and writes the other one, a render pass reads the buffer its
\* compute pass writes.
QueueOrdered ==
    \A j \in 1 .. Len(queue) :
        LET cb == queue[j]
            t  == step - Len(queue) + j - 1
        IN  /\ Len(cb) \in {1, 2}
            /\ Len(cb) = 1 => j = 1
            /\ cb[Len(cb)].kind = "render"
            /\ cb[Len(cb)].tick = t
            /\ cb[Len(cb)].bindGroup.b1 = (t + 1) % 2
            /\ Len(cb) = 2 =>
                  /\ cb[1].kind = "compute"
                  /\ cb[1].tick = t
                  /\ cb[1].bindGroup.b1 = t % 2
                  /\ cb[1].bindGroup.b2 = (t + 1) % 2

\* A host step submits one whole command buffer and touches no buffer; a
\* device step runs exactly the pass at the head of the queue: a compute
\* pass only once the render pass of the tick before has run, a render pass
\* only once the compute pass of its own tick has run.
PassStep ==
    \/ /\ step' = step + 1
       /\ queue' = Append(queue, queue'[Len(queue')])
       /\ Len(queue'[Len(queue')]) = 2
       /\ UNCHANGED <<cellStateStorage, dispatch, lastRender>>
    \/ /\ step' = step
       /\ queue # << >>
       /\ queue' = Advance(queue)
       /\ LET pass == Head(Head(queue))
          IN  \/ /\ pass.kind = "compute"
                 /\ lastRender.tick = pass.tick - 1
                 /\ dispatch.tick = pass.tick - 1
                 /\ dispatch'.tick = pass.tick
                 /\ dispatch'.in # dispatch'.out
                 /\ cellStateStorage'[dispatch'.in] = cellStateStorage[dispatch'.in]
                 /\ UNCHANGED lastRender
              \/ /\ pass.kind = "render"
                 /\ dispatch.tick = pass.tick
                 /\ lastRender.tick = pass.tick - 1
                 /\ lastRender'.tick = pass.tick
                 /\ lastRender'.buffer = dispatch.out
                 /\ UNCHANGED <<cellStateStorage, dispatch>>

\* C15: however the timer and the device are scheduled, the ticks do not
\* interleave on the host (each tick submits its whole command buffer in
\* one step, in tick order) and the device runs one pass at a time in
\* submission order, so that no pass writes a state buffer that another
\* pass is reading or writing.
C15_NoInterleaving == []QueueOrdered /\ [][PassStep]_vars

\* C15 witness: tick 1 was submitted while the render pass of tick 0 was
\* still waiting on the device queue.
C15_Witness ==
    /\ step = 2
    /\ Len(queue) = 2
    /\ Len(queue[1]) = 1
    /\ queue[1][1].kind = "render"
    /\ dispatch.tick = 0
    /\ lastRender.tick = -1

\* What one step may change: a host tick only step and the queue, a render
\* pass no state buffer, a compute pass only the elements of the buffer
\* that is next for its tick; no step changes the grid dimensions, the
\* uniform buffer, the quad, the bind groups or the size of a state buffer.
FrameStep ==
    /\ UNCHANGED <<GRID_SIZE_X, GRID_SIZE_Y, uniformBuffer, vertexBuffer, bindGroups>>
    /\ DOMAIN cellStateStorage' = DOMAIN cellStateStorage
    /\ \A b \in DOMAIN cellStateStorage :
          DOMAIN cellStateStorage'[b] = DOMAIN cellStateStorage[b]
    /\ step' # step =>
          step' = step + 1 /\ UNCHANGED <<cellStateStorage, dispatch, lastRender>>
    /\ lastRender' # lastRender => UNCHANGED <<step, cellStateStorage>>
    /\ dispatch' # dispatch =>
          /\ UNCHANGED step
          /\ dispatch'.in = dispatch'.tick % 2
          /\ dispatch'.out = (dispatch'.tick + 1) % 2
          /\ cellStateStorage'[dispatch'.in] = cellStateStorage[dispatch'.in]
    /\ cellStateStorage' # cellStateStorage => dispatch' # dispatch

\* C16: a tick changes only step and the contents of the buffer that is
\* next for its step; the compute pass leaves the current buffer unchanged,
\* the render pass changes no state buffer, and the grid dimensions, the
\* uniform buffer, the quad, the bind groups and the size of both state
\* buffers stay as startup left them.
C16_FrameCondition ==
    /\ [](/\ uniformBuffer = <<GRID_SIZE_X, GRID_SIZE_Y>>
          /\ vertexBuffer = vertices
          /\ bindGroups = bindGroupsInit
          /\ \A b \in {0, 1} : DOMAIN cellStateStorage[b] = Indices)
    /\ [][FrameStep]_vars

\* C16 witness: two ticks have run to their end and changed both buffers
\* from what startup left in them.
C16_Witness ==
    /\ step = 2
    /\ dispatch.tick = 1
    /\ lastRender.tick = 1
    /\ \E i \in Indices : cellStateStorage[1][i] = 1
    /\ \E i \in Indices : cellStateStorage[0][i] # cellStateStorage[1][i]

\* The number of active cells among the first n of the eight neighbours of
\* the cell (x,y) on the width x height torus of the array g.
RECURSIVE TorusCount(_, _, _, _)
TorusCount(g, x, y, n) ==
    IF n = 0 THEN 0
    ELSE g[((y + Offsets[n][2]) % GRID_SIZE_Y) * GRID_SIZE_X
           + ((x + Offsets[n][1]) % GRID_SIZE_X)]
         + TorusCount(g, x, y, n - 1)

\* One synchronous B3/S23 step of the array g on the torus.
Life(g) ==
    [i \in DOMAIN g |->
        LET k == TorusCount(g, i % GRID_SIZE_X, i \div GRID_SIZE_X, 8)
        IN  IF k = 3 THEN 1 ELSE IF k = 2 THEN g[i] ELSE 0]

\* C17: for every grid size and every 0/1 content g0 of buffer A, after n
\* ticks buffer n mod 2 holds Life^n(g0).  Stated tick by tick: the compute
\* pass of tick t reads buffer t mod 2 and leaves Life of it in buffer
\* (t+1) mod 2, and once the device has run all submitted work the last
\* such tick is step - 1.
C17_Refinement ==
    /\ dispatch.tick >= 0 =>
          /\ dispatch.in = dispatch.tick % 2
          /\ dispatch.out = (dispatch.tick + 1) % 2
          /\ cellStateStorage[dispatch.out] = Life(cellStateStorage[dispatch.in])
    /\ queue = << >> => dispatch.tick = step - 1

\* What a render pass draws: the pass of tick t runs after the compute pass
\* of tick t and before any later one, and reads the buffer that pass wrote
\* in full, never a buffer last written by the upload or by nothing.
RenderStep ==
    lastRender' # lastRender =>
        LET b == lastRender'.buffer
        IN  /\ lastRender'.tick \in 0 .. (step - 1)
            /\ dispatch.tick = lastRender'.tick
            /\ b = dispatch.out
            /\ lastWriter[b].by = "compute"
            /\ lastWriter[b].tick = lastRender'.tick
            /\ Indices \subseteq lastWriter[b].cells
            /\ DOMAIN lastRender'.frame = Indices
            /\ \A i \in Indices :
                  lastRender'.frame[i].state = cellStateStorage[dispatch.out][i]

\* C18: the frame drawn by the n-th call of updateGrid shows the array that
\* call's compute pass produced (generation n); no render pass reads the
\* uploaded initial state or a buffer no compute pass has written.
C18_FrameShowsGeneration == [][RenderStep]_vars

\* C18 witness: the second frame was drawn from buffer A, which held the
\* upload until the compute pass of the second tick overwrote it, and it
\* shows an active cell.
C18_Witness ==
    /\ lastRender.tick = 1
    /\ lastRender.buffer = 0
    /\ lastWriter[0].by = "compute"
    /\ lastWriter[0].tick = 1
    /\ \E i \in Indices : lastRender.frame[i].state = 1

====
